---- MODULE Spec2Model ----
(***************************************************************************)
(* Stock ledger and point-of-sale transaction engine of digichem-backend.  *)
(*                                                                         *)
(* The module models the Product stock methods (models/Product.js), the    *)
(* sale controller (controllers/pos/saleController.js) and the stock /     *)
(* reconciliation controller (controllers/inventory/stockController.js).   *)
(* Three specifications are built from the same operators:                 *)
(*   SpecStock - the stock mutators applied to one Stock Record whose      *)
(*               fields are drawn from bounded sets;                       *)
(*   Spec      - the sale engine, one request at a time, over a fixed      *)
(*               catalogue of two tenants;                                 *)
(*   SpecRecon - the reconciliation ledger over drawn cases.               *)
(***************************************************************************)
EXTENDS Integers, Sequences, FiniteSets, TLC

VARIABLES
  products,   \* Product collection: product id -> document
  sales,      \* Sale collection, in insertion order
  recons,     \* StockReconciliation collection, in insertion order
  logs,       \* InventoryLog collection, in insertion order
  last,       \* the request handled last and its response
  txs         \* SpecConc: the sessions of the requests in progress

vars == <<products, sales, recons, logs, last, txs>>

(***************************************************************************)
(* Bounds                                                                  *)
(***************************************************************************)
MaxPacks == 2
MaxLoose == 3
MaxUnitsPerPack == 3
MaxQty == 4

(***************************************************************************)
(* Small helpers for the JavaScript arithmetic the code uses               *)
(***************************************************************************)
Min(a, b) == IF a < b THEN a ELSE b
Max(a, b) == IF a > b THEN a ELSE b
\* Math.ceil(a / b) for a >= 0, b >= 1
Ceil(a, b) == (a + b - 1) \div b
\* Math.floor(a / b) for b >= 1
Floor(a, b) == a \div b
\* a % b of JavaScript for b >= 1: the result has the sign of a
jsRemainder(a, b) == IF a >= 0 THEN a % b ELSE 0 - ((0 - a) % b)

(***************************************************************************)
(* Product document (models/Product.js)                                    *)
(***************************************************************************)
DivisibleTypes == {"Tablets", "Capsules", "Grams"}
UnitTypes == {"Tablets", "Capsules", "Bottles", "Tubes", "Packs", "Units"}

\* virtual stock.totalUnits
totalUnits(product) ==
  LET fullPacks == product.stock.fullPacks
      looseUnits == product.stock.looseUnits
      unitsPerPack == IF product.pricing.unitsPerPack = 0 THEN 1
                      ELSE product.pricing.unitsPerPack
  IN  (fullPacks * unitsPerPack) + looseUnits

\* virtual pricing.pricePerUnit
pricePerUnit(product) ==
  IF product.pricing.sellingPricePerPack = 0 \/ product.pricing.unitsPerPack = 0
  THEN 0
  ELSE product.pricing.sellingPricePerPack \div product.pricing.unitsPerPack

\* a schema without the min validators (mutant)
stockUnvalidated(product) == TRUE

\* schema validators of stock.fullPacks / stock.looseUnits, run by save()
stockValid(product) ==
  /\ product.stock.fullPacks >= 0
  /\ product.stock.looseUnits >= 0

\* Product.addStock without the modulo (mutant: only one pack is carried over)
addStockCarryOne(product, packs, units) ==
  LET fp1 == product.stock.fullPacks + packs
      lu1 == product.stock.looseUnits + units
      unitsPerPack == IF product.pricing.unitsPerPack = 0 THEN 1
                      ELSE product.pricing.unitsPerPack
      additionalPacks == IF lu1 >= unitsPerPack THEN 1 ELSE 0
  IN  [product EXCEPT !.stock.fullPacks = fp1 + additionalPacks,
                      !.stock.looseUnits = lu1 - additionalPacks * unitsPerPack]

\* Product.addStock with the units added to the packs (mutant)
addStockUnitsAsPacks(product, packs, units) ==
  LET fp1 == product.stock.fullPacks + packs + units
      lu1 == product.stock.looseUnits
      unitsPerPack == IF product.pricing.unitsPerPack = 0 THEN 1
                      ELSE product.pricing.unitsPerPack
  IN  [product EXCEPT !.stock.fullPacks = fp1 + Floor(lu1, unitsPerPack),
                      !.stock.looseUnits = lu1 % unitsPerPack]

\* productSchema.methods.addStock: the document as it is saved
addStock(product, packs, units) ==
  LET fp1 == product.stock.fullPacks + packs
      lu1 == product.stock.looseUnits + units
      unitsPerPack == IF product.pricing.unitsPerPack = 0 THEN 1
                      ELSE product.pricing.unitsPerPack
      additionalPacks == Floor(lu1, unitsPerPack)
  IN  [product EXCEPT !.stock.fullPacks = fp1 + additionalPacks,
                      !.stock.looseUnits = jsRemainder(lu1, unitsPerPack)]

(***************************************************************************)
(* Sale decrement (saleController.js).  Each handler returns               *)
(*   [err |-> "none" | "NotEnough" | "ValidationError", product |-> doc]   *)
(* where product is the document that save() persisted in the session      *)
(* (the unchanged document when the handler threw).                        *)
(***************************************************************************)
\* product.save({ session }) with the schema validators
saveProduct(before, after) ==
  IF stockValid(after) THEN [err |-> "none", product |-> after]
  ELSE [err |-> "ValidationError", product |-> before]

\* handleSubdividableProduct losing the change of the broken packs (mutant)
handleSubdividableNoChange(product, quantity) ==
  LET unitsFromLoose == Min(quantity, product.stock.looseUnits)
      loose1 == product.stock.looseUnits - unitsFromLoose
      remainingQuantity == quantity - unitsFromLoose
      packsToBreak == Ceil(remainingQuantity, product.pricing.unitsPerPack)
  IN  IF remainingQuantity > 0
      THEN IF packsToBreak > product.stock.fullPacks
           THEN [err |-> "NotEnough", product |-> product]
           ELSE saveProduct(product,
                  [product EXCEPT !.stock.fullPacks = @ - packsToBreak,
                                  !.stock.looseUnits = loose1])
      ELSE saveProduct(product, [product EXCEPT !.stock.looseUnits = loose1])

\* handleSubdividableProduct selling what is left instead of throwing
\* (mutant)
handleSubdividableSellsRest(product, quantity) ==
  LET unitsFromLoose == Min(quantity, product.stock.looseUnits)
      loose1 == product.stock.looseUnits - unitsFromLoose
      remainingQuantity == quantity - unitsFromLoose
      packsToBreak == Ceil(remainingQuantity, product.pricing.unitsPerPack)
      unitsFromPacks == packsToBreak * product.pricing.unitsPerPack
  IN  IF remainingQuantity > 0
      THEN IF packsToBreak > product.stock.fullPacks
           THEN saveProduct(product,
                  [product EXCEPT !.stock.fullPacks = 0,
                                  !.stock.looseUnits = 0])
           ELSE saveProduct(product,
                  [product EXCEPT !.stock.fullPacks = @ - packsToBreak,
                                  !.stock.looseUnits =
                                     loose1 + (unitsFromPacks - remainingQuantity)])
      ELSE saveProduct(product, [product EXCEPT !.stock.looseUnits = loose1])

\* handleSubdividableProduct: the decrement of a divisible product
handleSubdividableProduct(product, quantity) ==
  LET unitsFromLoose == Min(quantity, product.stock.looseUnits)
      loose1 == product.stock.looseUnits - unitsFromLoose
      remainingQuantity == quantity - unitsFromLoose
      packsToBreak == Ceil(remainingQuantity, product.pricing.unitsPerPack)
      unitsFromPacks == packsToBreak * product.pricing.unitsPerPack
  IN  IF remainingQuantity > 0
      THEN IF packsToBreak > product.stock.fullPacks
           THEN [err |-> "NotEnough", product |-> product]
           ELSE saveProduct(product,
                  [product EXCEPT !.stock.fullPacks = @ - packsToBreak,
                                  !.stock.looseUnits =
                                     loose1 + (unitsFromPacks - remainingQuantity)])
      ELSE saveProduct(product, [product EXCEPT !.stock.looseUnits = loose1])

handleWholeUnitProduct(product, quantity) ==
  LET totalUnitsNeeded == quantity
      unitsFromLoose == Min(quantity, product.stock.looseUnits)
      loose1 == product.stock.looseUnits - unitsFromLoose
      remainingQuantity == quantity - unitsFromLoose
  IN  IF totalUnitsNeeded > totalUnits(product)
      THEN [err |-> "NotEnough", product |-> product]
      ELSE IF remainingQuantity > 0
           THEN saveProduct(product,
                  [product EXCEPT !.stock.looseUnits = loose1,
                                  !.stock.fullPacks = @ - remainingQuantity])
           ELSE saveProduct(product, [product EXCEPT !.stock.looseUnits = loose1])

updateProductStock(product, quantity) ==
  IF product.unitType \in DivisibleTypes
  THEN handleSubdividableProduct(product, quantity)
  ELSE handleWholeUnitProduct(product, quantity)

(***************************************************************************)
(* SpecStock: the stock mutators on one Stock Record                       *)
(***************************************************************************)
\* the owners of the two tenants, as req.user
OwnerA == [id |-> "ownerA", role |-> "pharmacy_owner", tenantId |-> "A",
           permissions |-> [overrideStock |-> FALSE]]
OwnerB == [id |-> "ownerB", role |-> "pharmacy_owner", tenantId |-> "B",
           permissions |-> [overrideStock |-> FALSE]]

StockDocs ==
  [ name : {"P1"}, pharmacy : {"A"}, status : {"active"},
    unitType : {"Tablets", "Bottles"},
    pricing : [ unitsPerPack : 1..MaxUnitsPerPack, sellingPricePerPack : {6} ],
    stock : [ fullPacks : 0..MaxPacks, looseUnits : 0..MaxLoose ] ]

NoRequest == [op |-> "none"]

InitStock ==
  /\ products \in [ {1} -> StockDocs ]
  /\ sales = << >>
  /\ recons = << >>
  /\ logs = << >>
  /\ last = NoRequest
  /\ txs = << >>

\* updateProductStock(product, quantity, session) on the record, committed
StockDecrement(quantity) ==
  LET r == updateProductStock(products[1], quantity)
  IN  /\ products' = [products EXCEPT ![1] = r.product]
      /\ last' = [op |-> "updateProductStock", quantity |-> quantity,
                  err |-> r.err, before |-> products[1].stock]
      /\ UNCHANGED <<sales, recons, logs, txs>>

\* product.addStock(packs, units)
StockIncrement(packs, units) ==
  /\ products[1].stock.fullPacks + packs <= MaxPacks
  /\ products' = [products EXCEPT ![1] = addStock(products[1], packs, units)]
  /\ last' = [op |-> "addStock", packs |-> packs, units |-> units,
              err |-> "none", before |-> products[1].stock]
  /\ UNCHANGED <<sales, recons, logs, txs>>

NextStock ==
  \/ \E quantity \in 1..MaxQty : StockDecrement(quantity)
  \/ \E packs \in 0..1, units \in 0..MaxQty : StockIncrement(packs, units)

SpecStock == InitStock /\ [][NextStock]_vars


(***************************************************************************)
(* Sale engine (saleController.js).  State of the store and of one request *)
(***************************************************************************)
MaxLineQty == 2
SalePacks == 1
SaleLoose == 1
LowPaid == 1
HighPaid == 4

\* Catalogue of the sale specification: two products of tenant A (one
\* divisible, one whole-unit) with the given stock, one product of tenant B
\* and one inactive product.  Product 5 does not exist.
Catalogue(stock1, stock2) ==
  ( 1 :> [ name |-> "P1", pharmacy |-> "A", status |-> "active",
           unitType |-> "Tablets",
           pricing |-> [unitsPerPack |-> 2, sellingPricePerPack |-> 2],
           stock |-> stock1 ] ) @@
  ( 2 :> [ name |-> "P2", pharmacy |-> "A", status |-> "active",
           unitType |-> "Bottles",
           pricing |-> [unitsPerPack |-> 2, sellingPricePerPack |-> 2],
           stock |-> stock2 ] ) @@
  ( 3 :> [ name |-> "P3", pharmacy |-> "B", status |-> "active",
           unitType |-> "Tablets",
           pricing |-> [unitsPerPack |-> 2, sellingPricePerPack |-> 2],
           stock |-> [fullPacks |-> 1, looseUnits |-> 0] ] ) @@
  ( 4 :> [ name |-> "P4", pharmacy |-> "A", status |-> "inactive",
           unitType |-> "Tablets",
           pricing |-> [unitsPerPack |-> 2, sellingPricePerPack |-> 2],
           stock |-> [fullPacks |-> 1, looseUnits |-> 0] ] )

SaleStocks == [ fullPacks : 0..SalePacks, looseUnits : 0..SaleLoose ]

ProductIds == 1..5

\* req.user as the authentication middleware supplies it
Users ==
  { [id |-> "ownerA", role |-> "pharmacy_owner", tenantId |-> "A",
     permissions |-> [overrideStock |-> FALSE]],
    [id |-> "attA", role |-> "attendant", tenantId |-> "A",
     permissions |-> [overrideStock |-> FALSE]],
    [id |-> "attOverrideA", role |-> "attendant", tenantId |-> "A",
     permissions |-> [overrideStock |-> TRUE]] }

\* values of req.body.ignoreStock as JSON carries them: false (also the
\* default of a body without the field), true and the number 1
IgnoreStockValues == {"false", "true", "1"}

\* if (!ignoreStock), ignoreStock && ...: JavaScript truthiness
truthy(value) == value \notin {"false", "0", "null"}

\* req.body.ignoreStock === true
strictlyTrue(value) == value = "true"

\* Mongoose's cast of a Boolean path
castBoolean(value) == value \in {"true", "1"}

Lines == [productId : ProductIds, quantity : 1..MaxLineQty]
ItemLists == { <<l>> : l \in Lines } \cup { <<l, m>> : l \in Lines, m \in Lines }
SaleBodies ==
  [ items : ItemLists, amountPaid : {LowPaid, HighPaid},
    ignoreStock : IgnoreStockValues ]

\* the committed collections as one value
Db == [products |-> products, sales |-> sales, recons |-> recons, logs |-> logs]

\* Math.random().toString(36) part of generateReceiptNumber: the caller draws it
generateReceiptNumber(random) == random

\* the actors checkSalesPermissions lets override the stock check
overrideAllowed(user) ==
  \/ user.role = "pharmacy_owner"
  \/ user.role = "attendant" /\ user.permissions.overrideStock = TRUE

\* checkSalesPermissions: TRUE when next() is called, FALSE on the 403
checkSalesPermissions(user, body) ==
  IF strictlyTrue(body.ignoreStock) THEN overrideAllowed(user) ELSE TRUE

\* the catch block taking every error of the stock update for a shortage
\* (mutant)
anyStockErrorIsShortage(err) == TRUE

\* stockError.message.includes('not enough') || includes('insufficient'):
\* the messages thrown are "Not enough ... available" and the validation
\* message "... Cannot have negative packs"; includes() is case-sensitive.
stockErrorIsShortage(err) == FALSE

\* the strict-mode check with >= (mutant)
insufficientStockOffByOne(quantity, product) == quantity >= totalUnits(product)

\* item.quantity > product.stock.totalUnits
insufficientStock(quantity, product) == quantity > totalUnits(product)

\* the override branch rethrowing the error of the stock update (mutant)
swallowNothing(tx, err, i) ==
  [tx EXCEPT !.res = [status |-> 500, kind |-> err, line |-> i]]

\* catch (stockError) of the override branch: the error is logged, the sale
\* goes on.  A write conflict reported by the store has already aborted the
\* transaction on the server: every later operation of the session fails.
swallowStockError(tx, err, i) ==
  [tx EXCEPT !.swallowed = @ + 1,
             !.aborted = @ \/ err = "WriteConflict"]

\* the query run outside the session: it returns the committed document,
\* without the writes of the transaction (mutant)
findByIdOutsideSession(tx, productId) == tx.snapshot[productId]

\* Product.findById(item.productId).session(session): the document as the
\* transaction sees it, with the writes of its earlier lines
findById(tx, productId) == tx.products[productId]

\* One iteration of the item loop of processSale on the session's view.
\* tx.res.status = 0 while the request is still being processed.
processItem(tx, item, i, ignoreStock) ==
  IF tx.aborted
  THEN [tx EXCEPT !.res = [status |-> 500, kind |-> "NoSuchTransaction",
                           line |-> i]]
  ELSE IF item.productId \notin DOMAIN tx.products
  THEN [tx EXCEPT !.res = [status |-> 404, kind |-> "NotFound", line |-> i]]
  ELSE
  LET product == findById(tx, item.productId)
      itemTotal == item.quantity * pricePerUnit(product)
      tx1 == [tx EXCEPT !.totalAmount = @ + itemTotal,
                        !.saleItems = Append(@,
                           [product |-> item.productId,
                            productName |-> product.name,
                            quantity |-> item.quantity,
                            total |-> itemTotal]),
                        !.seen = Append(@,
                           [product |-> item.productId,
                            quantity |-> item.quantity,
                            stock |-> product.stock,
                            available |-> totalUnits(product)])]
      u == updateProductStock(product, item.quantity)
      \* product.save({ session }): the store rejects a write to a document
      \* another transaction wrote since the snapshot of this one
      r == IF u.err = "none" /\ item.productId \in tx.conflicts
           THEN [err |-> "WriteConflict", product |-> product]
           ELSE u
      hasStockShortage == insufficientStock(item.quantity, product)
      warning == [product |-> product.name, requested |-> item.quantity,
                  available |-> totalUnits(product),
                  deficit |-> item.quantity - totalUnits(product)]
  IN
  IF product.status # "active"
  THEN [tx EXCEPT !.res = [status |-> 400, kind |-> "InactiveProduct", line |-> i]]
  ELSE IF ~ignoreStock
  THEN IF insufficientStock(item.quantity, product)
       THEN [tx1 EXCEPT !.res = [status |-> 400, kind |-> "InsufficientStock",
                                 line |-> i,
                                 available |-> totalUnits(product),
                                 requested |-> item.quantity]]
       ELSE IF r.err = "none"
            THEN [tx1 EXCEPT !.products[item.productId] = r.product,
                             !.saved = @ + 1,
                             !.written = @ \cup {item.productId}]
            ELSE [tx1 EXCEPT !.res = [status |-> 500, kind |-> r.err, line |-> i]]
  ELSE LET tx2 == IF hasStockShortage
                  THEN [tx1 EXCEPT !.stockWarnings = Append(@, warning)]
                  ELSE tx1
       IN  IF r.err = "none"
           THEN [tx2 EXCEPT !.products[item.productId] = r.product,
                            !.saved = @ + 1,
                             !.written = @ \cup {item.productId}]
           ELSE IF stockErrorIsShortage(r.err) /\ ~hasStockShortage
                THEN swallowStockError(
                       [tx2 EXCEPT !.stockWarnings = Append(@, warning)],
                       r.err, i)
                ELSE swallowStockError(tx2, r.err, i)

RECURSIVE processItems(_, _, _, _)
processItems(tx, items, i, ignoreStock) ==
  IF i > Len(items) \/ tx.res.status # 0 THEN tx
  ELSE processItems(processItem(tx, items[i], i, ignoreStock), items, i + 1,
                    ignoreStock)


\* session.abortTransaction() keeping the session's product writes (mutant)
abortKeepsStock(db, tx) ==
  [db EXCEPT !.products = [id \in DOMAIN db.products |->
                             IF id \in tx.written THEN tx.products[id]
                             ELSE db.products[id]]]

\* session.abortTransaction(): the committed collections after the abort
abortTransaction(db, tx) == db

\* session.commitTransaction(): the session's view becomes the committed state
commitTransaction(db, tx) ==
  [products |-> [id \in DOMAIN db.products |->
                   IF id \in tx.written THEN tx.products[id]
                   ELSE db.products[id]],
   sales |-> tx.sales, recons |-> tx.recons, logs |-> tx.logs]

\* Product.findOne({ name, pharmacy }): the first matching product id, 0 if none
findProductByName(prods, name, pharmacy) ==
  LET ids == { id \in DOMAIN prods :
                 prods[id].name = name /\ prods[id].pharmacy = pharmacy }
  IN  IF ids = {} THEN 0 ELSE CHOOSE id \in ids : \A other \in ids : id <= other

\* createReconciliationRecords: the StockReconciliation collection after it
RECURSIVE createReconciliationRecords(_, _, _, _, _)
createReconciliationRecords(sale, stockWarnings, k, prods, cases) ==
  IF k > Len(stockWarnings) THEN cases
  ELSE
  LET warning == stockWarnings[k]
      product == findProductByName(prods, warning.product, sale.pharmacy)
      reconciliation ==
        [ id |-> Len(cases) + 1, saleId |-> sale.id, pharmacy |-> sale.pharmacy,
          attendant |-> sale.attendant, product |-> product,
          productName |-> warning.product, quantitySold |-> warning.requested,
          availableStock |-> warning.available, deficit |-> warning.deficit,
          status |-> "pending", action |-> "none", resolvedBy |-> "none",
          resolvedAt |-> "none" ]
  IN  createReconciliationRecords(sale, stockWarnings, k + 1, prods,
        IF warning.deficit > 0 /\ product # 0
        THEN Append(cases, reconciliation) ELSE cases)

\* the audit loop writing an entry for the first item only (mutant)
saleLogsFirstItemOnly(user, items, saleId) ==
  [ i \in 1..Min(1, Len(items)) |->
      [ product |-> items[i].productId, pharmacy |-> user.tenantId,
        action |-> "sale", performedBy |-> user.id,
        details |-> [quantity |-> items[i].quantity, saleId |-> saleId] ] ]

\* InventoryLog.create per item of the request
saleLogs(user, items, saleId) ==
  [ i \in 1..Len(items) |->
      [ product |-> items[i].productId, pharmacy |-> user.tenantId,
        action |-> "sale", performedBy |-> user.id,
        details |-> [quantity |-> items[i].quantity, saleId |-> saleId] ] ]

\* the payment check refusing an exact payment (mutant)
insufficientPaymentOrEqual(amountPaid, totalAmount) == amountPaid <= totalAmount

\* if (amountPaid < totalAmount)
insufficientPayment(amountPaid, totalAmount) == amountPaid < totalAmount

\* a Sale collection without the unique index (mutant)
receiptNeverTaken(committed, receiptNumber) == FALSE

\* saleSchema.index({ receiptNumber: 1 }, { unique: true }): the insert of a
\* Sale is rejected (E11000) when a committed Sale has its receiptNumber
receiptTaken(committed, receiptNumber) ==
  \E i \in 1..Len(committed) : committed[i].receiptNumber = receiptNumber

\* session.startTransaction(): the session's view of the products and the
\* locals of processSale
startTransaction(db) ==
  [ products |-> db.products, snapshot |-> db.products, written |-> {},
    totalAmount |-> 0, saleItems |-> << >>, stockWarnings |-> << >>,
    seen |-> << >>, saved |-> 0, swallowed |-> 0,
    conflicts |-> {}, aborted |-> FALSE,
    res |-> [status |-> 0] ]

\* processSale after the item loop: payment check, Sale, reconciliation
\* records, audit entries, commit
finishSale(db, tx, user, body, random, caseError) ==
  LET changeDue == Max(0, body.amountPaid - tx.totalAmount)
      sale == [ id |-> Len(db.sales) + 1, pharmacy |-> user.tenantId,
                attendant |-> user.id, items |-> tx.saleItems,
                subtotal |-> tx.totalAmount, totalAmount |-> tx.totalAmount,
                amountPaid |-> body.amountPaid, changeDue |-> changeDue,
                status |-> "completed",
                receiptNumber |-> generateReceiptNumber(random),
                metadata |-> [ignoreStock |-> castBoolean(body.ignoreStock),
                              stockWarnings |-> tx.stockWarnings] ]
      duplicate == receiptTaken(db.sales, sale.receiptNumber)
      cases == IF truthy(body.ignoreStock) /\ Len(tx.stockWarnings) > 0
               THEN createReconciliationRecords(sale, tx.stockWarnings, 1,
                                                tx.products, db.recons)
               ELSE db.recons
      \* reconciliation.save({ session }) rejected by the store: the catch
      \* block of createReconciliationRecords logs the error, the store has
      \* aborted the transaction
      caseWriteFailed == caseError /\ Len(cases) > Len(db.recons)
      txDone == [ products |-> tx.products, written |-> tx.written,
                  sales |-> Append(db.sales, sale),
                  recons |-> cases,
                  logs |-> db.logs \o saleLogs(user, body.items, sale.id) ]
      \* the writes of the session after the loop, in the order of the code
      ops == << "Sale.save" >>
               \o [ k \in 1..(Len(cases) - Len(db.recons)) |->
                      "StockReconciliation.save" ]
               \o [ k \in 1..Len(body.items) |-> "InventoryLog.create" ]
               \o << "commitTransaction" >>
      info == [seen |-> tx.seen, saved |-> tx.saved, swallowed |-> tx.swallowed,
               ignoreStock |-> truthy(body.ignoreStock),
               tenant |-> user.tenantId,
               authorized |-> overrideAllowed(user),
               strict |-> strictlyTrue(body.ignoreStock),
               allActive |-> \A i \in 1..Len(body.items) :
                               /\ body.items[i].productId \in DOMAIN db.products
                               /\ db.products[body.items[i].productId].status
                                    = "active",
               paid |-> body.amountPaid >= tx.totalAmount,
               items |-> body.items, amountPaid |-> body.amountPaid,
               totalAmount |-> tx.totalAmount, user |-> user.id,
               ops |-> ops, caseWriteFailed |-> caseWriteFailed,
               casesDue |-> truthy(body.ignoreStock) /\ \E k \in DOMAIN tx.stockWarnings :
                                tx.stockWarnings[k].deficit > 0,
               duplicateReceipt |-> duplicate]
  IN  IF tx.res.status # 0
      THEN [db |-> abortTransaction(db, tx), res |-> tx.res, info |-> info]
      ELSE IF insufficientPayment(body.amountPaid, tx.totalAmount)
      THEN [db |-> abortTransaction(db, tx),
            res |-> [status |-> 400, kind |-> "InsufficientPayment",
                     line |-> 0],
            info |-> info]
      ELSE IF tx.aborted
      THEN [db |-> abortTransaction(db, tx),
            res |-> [status |-> 500, kind |-> "NoSuchTransaction", line |-> 0],
            info |-> info]
      ELSE IF duplicate
      THEN [db |-> abortTransaction(db, tx),
            res |-> [status |-> 500, kind |-> "DuplicateKey", line |-> 0],
            info |-> info]
      ELSE IF caseWriteFailed
      THEN [db |-> abortTransaction(db, tx),
            res |-> [status |-> 500, kind |-> "NoSuchTransaction", line |-> 0],
            info |-> info]
      ELSE [db |-> commitTransaction(db, txDone),
            res |-> [status |-> 200, kind |-> "ok", line |-> 0,
                     saleId |-> sale.id, changeDue |-> changeDue,
                     warnings |-> tx.stockWarnings],
            info |-> info]

\* the calls processSale makes on its session, by the path that produced the
\* response: commit and endSession after the audit entries, abortTransaction
\* and endSession in the catch block, abortTransaction alone before each
\* early return
sessionCalls(res) ==
  << "startSession", "startTransaction" >> \o
  ( CASE res.status = 200 -> << "commitTransaction", "endSession" >>
      [] res.status = 500 -> << "abortTransaction", "endSession" >>
      [] OTHER -> << "abortTransaction" >> )

\* processSale: the committed collections after the request, and the response
processSale(db, user, body, random, caseError) ==
  finishSale(db,
             processItems(startTransaction(db), body.items, 1,
                          truthy(body.ignoreStock)),
             user, body, random, caseError)

(***************************************************************************)
(* Spec: one POST /sales request against a store drawn from the states the *)
(* program can be in (any stock of the two products of tenant A, with or   *)
(* without an earlier sale)                                                *)
(***************************************************************************)
\* an earlier strict sale of one unit of product 1, and its audit entry
PriorSale ==
  [ id |-> 1, pharmacy |-> "A", attendant |-> "ownerA",
    items |-> << [product |-> 1, productName |-> "P1", quantity |-> 1,
                  total |-> 1] >>,
    subtotal |-> 1, totalAmount |-> 1, amountPaid |-> 1, changeDue |-> 0,
    status |-> "completed", receiptNumber |-> 1,
    metadata |-> [ignoreStock |-> FALSE, stockWarnings |-> << >>] ]

PriorLog ==
  [ product |-> 1, pharmacy |-> "A", action |-> "sale", performedBy |-> "ownerA",
    details |-> [quantity |-> 1, saleId |-> 1] ]

Init ==
  /\ \E stock1 \in SaleStocks, stock2 \in SaleStocks :
        products = Catalogue(stock1, stock2)
  /\ \/ sales = << >> /\ logs = << >>
     \/ sales = << PriorSale >> /\ logs = << PriorLog >>
  /\ recons = << >>
  /\ last = NoRequest
  /\ txs = << >>

\* POST /sales: checkSalesPermissions, then processSale
PostSale(user, body, random, caseError) ==
  /\ last = NoRequest
  /\ UNCHANGED txs
  /\ IF checkSalesPermissions(user, body)
     THEN \E r \in {processSale(Db, user, body, random, caseError)} :
              /\ products' = r.db.products
              /\ sales' = r.db.sales
              /\ recons' = r.db.recons
              /\ logs' = r.db.logs
              /\ last' = [op |-> "processSale", res |-> r.res, info |-> r.info,
                          session |-> sessionCalls(r.res)]
     ELSE /\ last' = [op |-> "processSale", session |-> << >>,
                      res |-> [status |-> 403, kind |-> "Forbidden", line |-> 0],
                      info |-> [ignoreStock |-> truthy(body.ignoreStock),
                                authorized |-> overrideAllowed(user),
                                strict |-> strictlyTrue(body.ignoreStock),
                                tenant |-> user.tenantId]]
          /\ UNCHANGED <<products, sales, recons, logs>>

\* the random part of a receipt number either repeats an existing one or is new
Next ==
  /\ last = NoRequest
  /\ \E user \in Users, body \in SaleBodies, random \in 1..(Len(sales) + 1),
        caseError \in BOOLEAN :
           PostSale(user, body, random, caseError)

Spec == Init /\ [][Next]_vars


(***************************************************************************)
(* Reconciliation ledger (stockController.js)                              *)
(***************************************************************************)
MaxDeficit == 2
MaxAdjustments == 2
ReconPacks == 1
ReconLoose == 2

ReconStatuses == {"pending", "investigating", "resolved", "adjusted"}

\* StockReconciliation.findOne({ _id, pharmacy }) ignoring the status (mutant)
findAnyStatus(cases, id, tenantId) ==
  id \in DOMAIN cases /\ cases[id].pharmacy = tenantId

\* StockReconciliation.findOne({ _id: id, pharmacy: tenantId, status: 'pending' })
findPending(cases, id, tenantId) ==
  /\ id \in DOMAIN cases
  /\ cases[id].pharmacy = tenantId
  /\ cases[id].status = "pending"

\* findOneAndUpdate filtering by _id only (mutant)
findAnyTenant(cases, id, tenantId) == id \in DOMAIN cases

\* filter of findOneAndUpdate in updateReconciliation
findOwn(cases, id, tenantId) ==
  id \in DOMAIN cases /\ cases[id].pharmacy = tenantId

\* updateReconciliation: the collection after the request, and the response
updateReconciliation(db, user, id, body) ==
  IF findOwn(db.recons, id, user.tenantId)
  THEN [db |-> [db EXCEPT !.recons[id] =
                  [@ EXCEPT !.status = body.status,
                            !.action = body.action,
                            !.resolvedBy = user.id,
                            !.resolvedAt = IF body.status \in {"resolved", "adjusted"}
                                           THEN "stamped" ELSE @]],
        res |-> [status |-> 200]]
  ELSE [db |-> db, res |-> [status |-> 404]]

\* product.save() after addStock(packs, units) on the document a handler
\* loaded: the update sets the paths the method changed (looseUnits when
\* units were added or the modulo changed it, fullPacks when packs were added
\* or carried over) to the
\* values computed from the loaded document; the other path keeps what the
\* collection holds
saveAddedStock(current, loaded, packs, units) ==
  LET saved == addStock(loaded, packs, units)
  IN  [current EXCEPT
         !.stock.looseUnits = IF units # 0
                                 \/ saved.stock.looseUnits # loaded.stock.looseUnits
                              THEN saved.stock.looseUnits ELSE @,
         !.stock.fullPacks = IF saved.stock.fullPacks # loaded.stock.fullPacks
                             THEN saved.stock.fullPacks ELSE @]

\* Product.findById(reconciliation.product._id)
loadCaseProduct(db, id) == db.products[db.recons[id].product]

\* await product.addStock(0, adjustmentQuantity); await product.save()
applyAdjustment(db, id, loaded, adjustmentQuantity) ==
  [db EXCEPT !.products[db.recons[id].product] =
                saveAddedStock(@, loaded, 0, adjustmentQuantity)]

\* reconciliation.status = 'adjusted'; ...; await reconciliation.save()
closeCase(db, user, id) ==
  [db EXCEPT !.recons[id] = [@ EXCEPT !.status = "adjusted",
                                      !.action = "stock_adjusted",
                                      !.resolvedBy = user.id,
                                      !.resolvedAt = "stamped"]]

\* InventoryLog.create of the adjustment
logAdjustment(db, user, id, adjustmentQuantity) ==
  [db EXCEPT !.logs = Append(@,
     [ product |-> db.recons[id].product, pharmacy |-> user.tenantId,
       action |-> "stock_adjust", performedBy |-> user.id,
       details |-> [quantity |-> adjustmentQuantity,
                    reconciliationId |-> id] ])]

\* adjustStockFromReconciliation: the collections after the request, and the
\* response
adjustStockFromReconciliation(db, user, id, adjustmentQuantity) ==
  IF ~findPending(db.recons, id, user.tenantId)
  THEN [db |-> db, res |-> [status |-> 404]]
  ELSE IF ~stockValid(addStock(loadCaseProduct(db, id), 0, adjustmentQuantity))
  THEN [db |-> db, res |-> [status |-> 500]]
  ELSE [db |-> logAdjustment(
                 closeCase(
                   applyAdjustment(db, id, loadCaseProduct(db, id),
                                adjustmentQuantity),
                   user, id),
                 user, id, adjustmentQuantity),
        res |-> [status |-> 200]]

(***************************************************************************)
(* SpecRecon: the ledger over one pending case of each tenant, as override *)
(* sales leave them                                                        *)
(***************************************************************************)

\* the ledger is driven by the owner of tenant A; the case of tenant B is the
\* foreign case
ReconUsers == {OwnerA}

\* the two products the cases refer to
ReconCatalogue(unitsPerPack, stock1) ==
  ( 1 :> [ name |-> "P1", pharmacy |-> "A", status |-> "active",
           unitType |-> "Tablets",
           pricing |-> [unitsPerPack |-> unitsPerPack,
                        sellingPricePerPack |-> unitsPerPack],
           stock |-> stock1 ] ) @@
  ( 2 :> [ name |-> "P3", pharmacy |-> "B", status |-> "active",
           unitType |-> "Tablets",
           pricing |-> [unitsPerPack |-> 2, sellingPricePerPack |-> 2],
           stock |-> [fullPacks |-> 0, looseUnits |-> 1] ] )

\* the override sale of quantity units of a product of which available were
\* in stock, the case it left and its audit entry
ShortSale(id, user, productId, productName, quantity, available) ==
  [ id |-> id, pharmacy |-> user.tenantId, attendant |-> user.id,
    items |-> << [product |-> productId, productName |-> productName,
                  quantity |-> quantity, total |-> quantity] >>,
    subtotal |-> quantity, totalAmount |-> quantity, amountPaid |-> quantity,
    changeDue |-> 0, status |-> "completed", receiptNumber |-> id,
    metadata |-> [ignoreStock |-> TRUE,
                  stockWarnings |-> << [product |-> productName,
                                        requested |-> quantity,
                                        available |-> available,
                                        deficit |-> quantity - available] >>] ]

ShortCase(id, user, productId, productName, quantity, available) ==
  [ id |-> id, saleId |-> id, pharmacy |-> user.tenantId,
    attendant |-> user.id, product |-> productId, productName |-> productName,
    quantitySold |-> quantity, availableStock |-> available,
    deficit |-> quantity - available, status |-> "pending",
    action |-> "none", resolvedBy |-> "none", resolvedAt |-> "none" ]

InitRecon ==
  \E unitsPerPack \in 1..MaxUnitsPerPack,
     stock1 \in [fullPacks : 0..ReconPacks, looseUnits : 0..ReconLoose],
     deficit \in 1..MaxDeficit :
     LET available == totalUnits(ReconCatalogue(unitsPerPack, stock1)[1])
     IN  /\ products = ReconCatalogue(unitsPerPack, stock1)
         /\ sales = << ShortSale(1, OwnerA, 1, "P1", available + deficit,
                                 available),
                       ShortSale(2, OwnerB, 2, "P3", 2, 1) >>
         /\ recons = << ShortCase(1, OwnerA, 1, "P1", available + deficit,
                                  available),
                        ShortCase(2, OwnerB, 2, "P3", 2, 1) >>
         /\ logs = saleLogs(OwnerA,
                      << [productId |-> 1, quantity |-> available + deficit] >>, 1)
                   \o saleLogs(OwnerB,
                      << [productId |-> 2, quantity |-> 2] >>, 2)
         /\ last = NoRequest
         /\ txs = << >>

\* PUT /reconciliations/:id
PutReconciliation(user, id, body) ==
  \E r \in {updateReconciliation(Db, user, id, body)} :
     /\ recons' = r.db.recons
     /\ last' = [op |-> "updateReconciliation", res |-> r.res, id |-> id,
                 tenant |-> user.tenantId, status |-> body.status]
     /\ UNCHANGED <<products, sales, logs, txs>>

\* POST /reconciliations/:id/adjust
PostAdjust(user, id, adjustmentQuantity) ==
  /\ \/ ~findPending(recons, id, user.tenantId)
     \/ Len(logs) < Len(sales) + MaxAdjustments
  /\ \E r \in {adjustStockFromReconciliation(Db, user, id, adjustmentQuantity)} :
        /\ products' = r.db.products
        /\ recons' = r.db.recons
        /\ logs' = r.db.logs
        /\ last' = [op |-> "adjustStockFromReconciliation", res |-> r.res,
                    id |-> id, tenant |-> user.tenantId,
                    quantity |-> adjustmentQuantity]
        /\ UNCHANGED <<sales, txs>>

NextRecon ==
  \/ \E user \in ReconUsers, id \in 1..3, status \in ReconStatuses :
        PutReconciliation(user, id, [status |-> status, action |-> "other"])
  \/ \E user \in ReconUsers, id \in 1..3, quantity \in 1..MaxDeficit :
        PostAdjust(user, id, quantity)

SpecRecon == InitRecon /\ [][NextRecon]_vars

(***************************************************************************)
(* SpecAdjust: several POST /reconciliations/:id/adjust requests in         *)
(* progress at once.  The handler uses no session: each of its reads and   *)
(* writes is a step of its own on the committed collections.               *)
(***************************************************************************)
MaxCalls == 2

Calls == 1..MaxCalls

\* a request that has not arrived yet
IdleCall ==
  [ pc |-> "idle", user |-> OwnerA, id |-> 0, quantity |-> 0,
    loaded |-> << >>, res |-> [status |-> 0] ]

InitAdjust ==
  \E unitsPerPack \in 1..MaxUnitsPerPack,
     stock1 \in [fullPacks : 0..ReconPacks, looseUnits : 0..ReconLoose] :
     LET available == totalUnits(ReconCatalogue(unitsPerPack, stock1)[1])
         deficit == MaxDeficit
     IN  /\ products = ReconCatalogue(unitsPerPack, stock1)
         /\ sales = << ShortSale(1, OwnerA, 1, "P1", available + deficit,
                                 available) >>
         /\ recons = << ShortCase(1, OwnerA, 1, "P1", available + deficit,
                                  available) >>
         /\ logs = saleLogs(OwnerA,
                      << [productId |-> 1, quantity |-> available + deficit] >>, 1)
         /\ last = NoRequest
         /\ txs = [ initial |-> products, s |-> [c \in Calls |-> IdleCall] ]

\* StockReconciliation.findOne({ _id, pharmacy, status: 'pending' }) and the
\* 404.  Requests are numbered in order of arrival.
AdjustFind(c, id, adjustmentQuantity) ==
  /\ txs.s[c].pc = "idle"
  /\ IF c = 1 THEN TRUE ELSE txs.s[c - 1].pc # "idle"
  /\ txs' = [txs EXCEPT !.s[c] =
       [ pc |-> IF findPending(recons, id, OwnerA.tenantId)
                THEN "load" ELSE "done",
         user |-> OwnerA, id |-> id, quantity |-> adjustmentQuantity,
         loaded |-> << >>,
         res |-> IF findPending(recons, id, OwnerA.tenantId)
                 THEN [status |-> 0] ELSE [status |-> 404] ]]
  /\ UNCHANGED <<products, sales, recons, logs, last>>

\* Product.findById(reconciliation.product._id)
AdjustLoad(c) ==
  /\ txs.s[c].pc = "load"
  /\ txs' = [txs EXCEPT !.s[c].pc = "addStock",
                        !.s[c].loaded = loadCaseProduct(Db, txs.s[c].id)]
  /\ UNCHANGED <<products, sales, recons, logs, last>>

\* await product.addStock(0, adjustmentQuantity)
AdjustAddStock(c) ==
  /\ txs.s[c].pc = "addStock"
  /\ products' = applyAdjustment(Db, txs.s[c].id, txs.s[c].loaded,
                                 txs.s[c].quantity).products
  /\ txs' = [txs EXCEPT !.s[c].pc = "saveCase"]
  /\ UNCHANGED <<sales, recons, logs, last>>

\* await reconciliation.save()
AdjustSaveCase(c) ==
  /\ txs.s[c].pc = "saveCase"
  /\ recons' = closeCase(Db, txs.s[c].user, txs.s[c].id).recons
  /\ txs' = [txs EXCEPT !.s[c].pc = "log"]
  /\ UNCHANGED <<products, sales, logs, last>>

\* await InventoryLog.create(...); res.json(...)
AdjustLog(c) ==
  /\ txs.s[c].pc = "log"
  /\ logs' = logAdjustment(Db, txs.s[c].user, txs.s[c].id,
                           txs.s[c].quantity).logs
  /\ txs' = [txs EXCEPT !.s[c].pc = "done", !.s[c].res = [status |-> 200]]
  /\ UNCHANGED <<products, sales, recons, last>>

NextAdjust ==
  \/ \E c \in Calls, id \in 1..2, quantity \in 1..MaxDeficit :
        AdjustFind(c, id, quantity)
  \/ \E c \in Calls : AdjustLoad(c)
  \/ \E c \in Calls : AdjustAddStock(c)
  \/ \E c \in Calls : AdjustSaveCase(c)
  \/ \E c \in Calls : AdjustLog(c)

SpecAdjust == InitAdjust /\ [][NextAdjust]_vars

(***************************************************************************)
(* Stock adjustment and restock (stockController.js, productController.js) *)
(***************************************************************************)
LedgerPacks == 1
LedgerLoose == 2
LedgerQty == 2

\* req.body.adjustmentType: the four the handler knows and any other string
AdjustmentTypes == {"add", "add_units", "remove", "set", "other"}

\* { fullPacks, looseUnits, totalUnits } as the audit entry records them
stockOf(product) ==
  [ fullPacks |-> product.stock.fullPacks,
    looseUnits |-> product.stock.looseUnits,
    totalUnits |-> totalUnits(product) ]

\* Product.findOne({ _id: productId, pharmacy: req.user.tenantId })
findOwnProduct(db, user, productId) ==
  /\ productId \in DOMAIN db.products
  /\ db.products[productId].pharmacy = user.tenantId

\* InventoryLog.create of adjustStock
adjustmentEntry(user, body, before, after) ==
  << [ product |-> body.productId, pharmacy |-> user.tenantId,
       action |-> "stock_adjust", performedBy |-> user.id,
       details |-> [ adjustmentType |-> body.adjustmentType,
                     quantity |-> body.quantity,
                     previousStock |-> stockOf(before),
                     newStock |-> stockOf(after) ] ] >>

\* adjustStock: the collections after the request, and the response.
\* logError: the store rejects the InventoryLog.create that follows the save.
adjustStock(db, user, body, logError) ==
  IF ~findOwnProduct(db, user, body.productId)
  THEN [db |-> db, res |-> [status |-> 404]]
  ELSE
  LET product == db.products[body.productId]
      totalToRemove == body.quantity * product.pricing.unitsPerPack
      changed ==
        CASE body.adjustmentType = "add" -> addStock(product, body.quantity, 0)
          [] body.adjustmentType = "add_units" ->
               addStock(product, 0, body.quantity)
          [] body.adjustmentType = "remove" ->
               [product EXCEPT !.stock.fullPacks = @ - body.quantity]
          [] body.adjustmentType = "set" ->
               [product EXCEPT !.stock.fullPacks = body.quantity,
                               !.stock.looseUnits = 0]
          [] OTHER -> product
      r == saveProduct(product, changed)
  IN  IF body.adjustmentType = "remove" /\ totalToRemove > totalUnits(product)
      THEN [db |-> db, res |-> [status |-> 400]]
      ELSE IF r.err # "none"
      THEN [db |-> db, res |-> [status |-> 500]]
      ELSE IF logError
      THEN [db |-> [db EXCEPT !.products[body.productId] = r.product],
            res |-> [status |-> 500]]
      ELSE [db |-> [db EXCEPT !.products[body.productId] = r.product,
                              !.logs = @ \o adjustmentEntry(user, body, product,
                                                            r.product)],
            res |-> [status |-> 200]]

\* updateProduct with req.body = { stock: { fullPacks, looseUnits } }: the
\* restock
updateProduct(db, user, productId, packs, units) ==
  IF ~findOwnProduct(db, user, productId)
  THEN [db |-> db, res |-> [status |-> 404]]
  ELSE
  LET product == db.products[productId]
      r == saveProduct(product, addStock(product, packs, units))
  IN  IF r.err # "none"
      THEN [db |-> db, res |-> [status |-> 500]]
      ELSE [db |-> [db EXCEPT !.products[productId] = r.product,
                              !.logs = Append(@,
                                 [ product |-> productId,
                                   pharmacy |-> user.tenantId,
                                   action |-> "update",
                                   performedBy |-> user.id,
                                   details |-> [fullPacks |-> packs,
                                                looseUnits |-> units] ])],
            res |-> [status |-> 200]]

(***************************************************************************)
(* SpecLedger: one request of any of the four kinds that write a Stock     *)
(* Record, against a store drawn over the Stock Records the schema admits  *)
(* (every state a sequence of requests can leave is among them).           *)
(***************************************************************************)
LedgerCatalogue(unitType, unitsPerPack, stock1) ==
  ( 1 :> [ name |-> "P1", pharmacy |-> "A", status |-> "active",
           unitType |-> unitType,
           pricing |-> [unitsPerPack |-> unitsPerPack,
                        sellingPricePerPack |-> unitsPerPack],
           stock |-> stock1 ] ) @@
  ( 2 :> [ name |-> "P3", pharmacy |-> "B", status |-> "active",
           unitType |-> "Tablets",
           pricing |-> [unitsPerPack |-> 2, sellingPricePerPack |-> 2],
           stock |-> [fullPacks |-> 0, looseUnits |-> 1] ] )

LedgerBodies ==
  [ items : { << [productId |-> 1, quantity |-> q] >> : q \in 1..LedgerQty },
    amountPaid : {HighPaid}, ignoreStock : {"false", "true"} ]

InitLedger ==
  \E unitType \in {"Tablets", "Bottles"},
     unitsPerPack \in 1..MaxUnitsPerPack,
     stock1 \in [fullPacks : 0..LedgerPacks, looseUnits : 0..LedgerLoose] :
     /\ products = LedgerCatalogue(unitType, unitsPerPack, stock1)
     /\ sales = << ShortSale(1, OwnerA, 1, "P1", MaxDeficit, 0) >>
     /\ recons = << ShortCase(1, OwnerA, 1, "P1", MaxDeficit, 0) >>
     /\ logs = saleLogs(OwnerA, << [productId |-> 1, quantity |-> MaxDeficit] >>, 1)
     /\ last = NoRequest
     /\ txs = << >>

\* POST /sales
LedgerSale(body) ==
  \E r \in { processSale(Db, OwnerA, body, Len(sales) + 1, FALSE) } :
     /\ products' = r.db.products
     /\ sales' = r.db.sales
     /\ recons' = r.db.recons
     /\ logs' = r.db.logs
     /\ last' = [op |-> "processSale", res |-> r.res, info |-> r.info]
     /\ UNCHANGED txs

\* PUT /products/:id with a stock block
PutProductStock(productId, packs, units) ==
  \E r \in { updateProduct(Db, OwnerA, productId, packs, units) } :
     /\ products' = r.db.products
     /\ logs' = r.db.logs
     /\ last' = [op |-> "updateProduct", res |-> r.res, productId |-> productId,
                 packs |-> packs, units |-> units]
     /\ UNCHANGED <<sales, recons, txs>>

\* POST /stock-adjustment
PostStockAdjustment(body, logError) ==
  \E r \in { adjustStock(Db, OwnerA, body, logError) } :
     /\ products' = r.db.products
     /\ logs' = r.db.logs
     /\ last' = [op |-> "adjustStock", res |-> r.res, body |-> body,
                 logError |-> logError]
     /\ UNCHANGED <<sales, recons, txs>>

\* POST /reconciliations/:id/adjust
LedgerAdjust(id, adjustmentQuantity) ==
  \E r \in { adjustStockFromReconciliation(Db, OwnerA, id, adjustmentQuantity) } :
     /\ products' = r.db.products
     /\ recons' = r.db.recons
     /\ logs' = r.db.logs
     /\ last' = [op |-> "adjustStockFromReconciliation", res |-> r.res,
                 id |-> id, tenant |-> OwnerA.tenantId,
                 quantity |-> adjustmentQuantity]
     /\ UNCHANGED <<sales, txs>>

NextLedger ==
  /\ last = NoRequest
  /\ \/ \E body \in LedgerBodies : LedgerSale(body)
     \/ \E productId \in 1..2, packs \in -1..1, units \in -1..LedgerQty :
           PutProductStock(productId, packs, units)
     \/ \E productId \in 1..2, adjustmentType \in AdjustmentTypes,
           quantity \in -1..LedgerQty, logError \in BOOLEAN :
           PostStockAdjustment([productId |-> productId,
                                adjustmentType |-> adjustmentType,
                                quantity |-> quantity], logError)
     \/ \E id \in 1..2, quantity \in -1..LedgerQty : LedgerAdjust(id, quantity)

SpecLedger == InitLedger /\ [][NextLedger]_vars

\* the audit entries the request appended
appendedEntries == SubSeq(logs', Len(logs) + 1, Len(logs'))

\* the entry adjustStock owes for the change it made to the Stock Record
pairedEntry(entry, body) ==
  /\ entry.action = "stock_adjust"
  /\ entry.product = body.productId
  /\ entry.details.adjustmentType = body.adjustmentType
  /\ entry.details.quantity = body.quantity
  /\ entry.details.previousStock = stockOf(products[body.productId])
  /\ entry.details.newStock = stockOf(products'[body.productId])

\* C19: in every outcome of an adjustStock call, a Stock Record was changed by
\* it if and only if exactly one Audit Entry with action stock_adjust was
\* appended for it, recording the mode, the quantity and the stock before and
\* after.
C19_AdjustPairedWithEntry ==
  [][ last'.op = "adjustStock" =>
        ( (products' # products) <=>
          ( /\ Len(appendedEntries) = 1
            /\ pairedEntry(appendedEntries[1], last'.body) ) ) ]_vars

\* what does hold of adjustStock: a call that answers 200 appended exactly one
\* entry that records the mode, the quantity and the stock before and after,
\* and a call that answers anything else appended none
AdjustSuccessIsLogged ==
  [][ last'.op = "adjustStock" =>
        IF last'.res.status = 200
        THEN /\ Len(appendedEntries) = 1
             /\ pairedEntry(appendedEntries[1], last'.body)
        ELSE logs' = logs ]_vars

\* what does hold of adjustStock: while the store accepts the audit write, a
\* changed Stock Record has its entry
AdjustChangeIsLoggedUnlessWriteFails ==
  [][ (last'.op = "adjustStock" /\ ~last'.logError /\ products' # products) =>
        ( /\ Len(appendedEntries) = 1
          /\ pairedEntry(appendedEntries[1], last'.body) ) ]_vars

\* C20: in every persisted state reachable by sales (strict or override),
\* restocks, adjustStock calls and reconciliation adjustments, every Stock
\* Record has fullPacks >= 0 and looseUnits >= 0, hence totalUnits >= 0.
C20_StockNeverNegative ==
  \A id \in DOMAIN products :
     /\ products[id].stock.fullPacks >= 0
     /\ products[id].stock.looseUnits >= 0
     /\ totalUnits(products[id]) >= 0

\* a restock with a negative amount that the Stock Record could not cover was
\* answered 500 and left the record as it was
C20_Witness ==
  /\ last.op = "updateProduct"
  /\ last.productId = 1
  /\ last.packs < 0
  /\ last.res.status = 500
  /\ products[1].stock.fullPacks = 0

(***************************************************************************)
(* SpecConc: several POST /sales requests in progress at once.  Each       *)
(* request runs in its own session; the store gives a transaction a        *)
(* snapshot of the documents and rejects a write to a document that        *)
(* another transaction wrote since (WriteConflict).  One step is one       *)
(* iteration of the item loop, or everything after the loop.               *)
(***************************************************************************)
MaxSessions == 2
ConcQty == 2
ConcPacks == 1
ConcLoose == 1

Sessions == 1..MaxSessions
ConcStocks == [ fullPacks : 0..ConcPacks, looseUnits : 0..ConcLoose ]
ConcLines == [productId : {1, 2}, quantity : 1..ConcQty]
ConcBodies ==
  [ items : { <<l>> : l \in ConcLines }, amountPaid : {HighPaid},
    ignoreStock : {"false", "true"} ]
ConcUser == OwnerA

\* a request that has not arrived yet
IdleSession ==
  [ pc |-> "idle", user |-> ConcUser,
    body |-> [items |-> << >>, amountPaid |-> 0, ignoreStock |-> "false"],
    i |-> 0, tx |-> startTransaction([products |-> << >>]),
    res |-> [status |-> 0] ]

\* the transaction of session u still holds its writes
Active(u) ==
  /\ txs.s[u].pc \in {"items", "saved"}
  /\ txs.s[u].tx.res.status = 0
  /\ ~txs.s[u].tx.aborted

\* documents written by the transactions in progress other than t
writtenByOthers(t) ==
  UNION { txs.s[u].tx.written : u \in { v \in Sessions \ {t} : Active(v) } }

InitConc ==
  /\ \E stock \in ConcStocks : products = Catalogue(stock, stock)
  /\ sales = << >>
  /\ recons = << >>
  /\ logs = << >>
  /\ last = NoRequest
  /\ txs = [ initial |-> products, s |-> [t \in Sessions |-> IdleSession] ]

\* mongoose.startSession(); session.startTransaction() of a request that
\* passed checkSalesPermissions.  Requests are numbered in order of arrival.
Begin(t, body) ==
  /\ txs.s[t].pc = "idle"
  /\ IF t = 1 THEN TRUE ELSE txs.s[t - 1].pc # "idle"
  /\ checkSalesPermissions(ConcUser, body)
  /\ txs' = [txs EXCEPT !.s[t] =
               [ pc |-> "items", user |-> ConcUser, body |-> body, i |-> 1,
                 tx |-> startTransaction(Db), res |-> [status |-> 0] ]]
  /\ UNCHANGED <<products, sales, recons, logs, last>>

\* one iteration of for (const item of items)
ItemStep(t) ==
  /\ txs.s[t].pc = "items"
  /\ txs.s[t].i <= Len(txs.s[t].body.items)
  /\ txs.s[t].tx.res.status = 0
  /\ LET se == txs.s[t]
         tx == [se.tx EXCEPT !.conflicts = @ \cup writtenByOthers(t)]
     IN  txs' = [txs EXCEPT !.s[t].tx =
                         processItem(tx, se.body.items[se.i], se.i,
                                     truthy(se.body.ignoreStock)),
                            !.s[t].i = @ + 1]
  /\ UNCHANGED <<products, sales, recons, logs, last>>

\* the rest of processSale: an early return or the catch block with
\* abortTransaction, or payment check, Sale, cases, audit entries and commit.
\* The receipt number is new and the store accepts the case writes
\* (collisions and store errors are part of Spec).
Finish(t) ==
  /\ txs.s[t].pc = "items"
  /\ IF txs.s[t].tx.res.status # 0 THEN TRUE
     ELSE txs.s[t].i > Len(txs.s[t].body.items)
  /\ \E r \in { finishSale(Db, txs.s[t].tx, txs.s[t].user, txs.s[t].body,
                           Len(sales) + 1, FALSE) } :
        /\ products' = r.db.products
        /\ sales' = r.db.sales
        /\ recons' = r.db.recons
        /\ logs' = r.db.logs
        /\ UNCHANGED last
        /\ txs' = [txs EXCEPT !.s =
              [u \in Sessions |->
                 IF u = t
                 THEN [txs.s[t] EXCEPT !.pc = "done", !.res = r.res]
                 ELSE IF txs.s[u].pc = "items" /\ r.res.status = 200
                 THEN [txs.s[u] EXCEPT !.tx.conflicts =
                                          @ \cup txs.s[t].tx.written]
                 ELSE txs.s[u]]]

NextConc ==
  \/ \E t \in Sessions, body \in ConcBodies : Begin(t, body)
  \/ \E t \in Sessions : ItemStep(t)
  \/ \E t \in Sessions : Finish(t)

SpecConc == InitConc /\ [][NextConc]_vars

(***************************************************************************)
(* SpecMixed: one POST /sales in its transaction while one stock           *)
(* adjustment (adjustStock, or adjustStockFromReconciliation on the        *)
(* pending case) runs without a session on the same product.  The          *)
(* adjustment loads the product, then saves the paths it changed; the      *)
(* store makes that write wait for a transaction that wrote the document,  *)
(* and a transaction that started before the write conflicts on it.        *)
(***************************************************************************)
\* the adjustments that add units: adjustStock with adjustmentType 'add' or
\* 'add_units', and the reconciliation adjustment
AdjustmentKinds == {"add", "add_units", "reconciliation"}

IdleAdjustment ==
  [ pc |-> "idle", kind |-> "none", quantity |-> 0, loaded |-> << >>,
    res |-> [status |-> 0] ]

\* sales of the divisible product 1, strict or override
MixedBodies ==
  [ items : { << [productId |-> 1, quantity |-> q] >> : q \in 1..ConcQty },
    amountPaid : {HighPaid}, ignoreStock : {"false", "true"} ]

InitMixed ==
  \E unitsPerPack \in 1..MaxUnitsPerPack,
     stock1 \in [fullPacks : 0..ReconPacks, looseUnits : 0..ReconLoose] :
     /\ products = ReconCatalogue(unitsPerPack, stock1)
     /\ sales = << ShortSale(1, OwnerA, 1, "P1", MaxDeficit, 0) >>
     /\ recons = << ShortCase(1, OwnerA, 1, "P1", MaxDeficit, 0) >>
     /\ logs = saleLogs(OwnerA, << [productId |-> 1, quantity |-> MaxDeficit] >>, 1)
     /\ last = NoRequest
     /\ txs = [ initial |-> products, s |-> [t \in Sessions |-> IdleSession],
                a |-> IdleAdjustment ]

\* Product.findOne({ _id, pharmacy }) of adjustStock, or
\* StockReconciliation.findOne({ ..., status: 'pending' }) and
\* Product.findById of adjustStockFromReconciliation
MixedLoad(kind, quantity) ==
  /\ txs.a.pc = "idle"
  /\ txs' = [txs EXCEPT !.a =
       [ pc |-> "save", kind |-> kind, quantity |-> quantity,
         loaded |-> IF kind = "reconciliation" THEN loadCaseProduct(Db, 1)
                    ELSE products[1],
         res |-> [status |-> 0] ]]
  /\ UNCHANGED <<products, sales, recons, logs, last>>

\* product.addStock(...); product.save(), outside any session
MixedSave ==
  /\ txs.a.pc = "save"
  /\ 1 \notin UNION { txs.s[u].tx.written : u \in { v \in Sessions : Active(v) } }
  /\ products' = [products EXCEPT ![1] =
        IF txs.a.kind = "add"
        THEN saveAddedStock(@, txs.a.loaded, txs.a.quantity, 0)
        ELSE saveAddedStock(@, txs.a.loaded, 0, txs.a.quantity)]
  /\ txs' = [txs EXCEPT !.a.pc = "finish",
                        !.s = [u \in Sessions |->
                                 IF txs.s[u].pc = "items"
                                 THEN [txs.s[u] EXCEPT !.tx.conflicts = @ \cup {1}]
                                 ELSE txs.s[u]]]
  /\ UNCHANGED <<sales, recons, logs, last>>

\* the rest of the handler: the case set to adjusted (reconciliation), the
\* Audit Entry, the response
MixedFinish ==
  /\ txs.a.pc = "finish"
  /\ IF txs.a.kind = "reconciliation"
     THEN /\ recons' = closeCase(Db, OwnerA, 1).recons
          /\ logs' = logAdjustment(Db, OwnerA, 1, txs.a.quantity).logs
     ELSE /\ recons' = recons
          /\ logs' = logs \o adjustmentEntry(OwnerA,
                        [productId |-> 1, adjustmentType |-> txs.a.kind,
                         quantity |-> txs.a.quantity],
                        txs.a.loaded, products[1])
  /\ txs' = [txs EXCEPT !.a.pc = "done", !.a.res = [status |-> 200]]
  /\ UNCHANGED <<products, sales, last>>

NextMixed ==
  \/ \E body \in MixedBodies : Begin(1, body)
  \/ ItemStep(1)
  \/ Finish(1)
  \/ \E kind \in AdjustmentKinds, quantity \in 1..MaxDeficit :
        MixedLoad(kind, quantity)
  \/ MixedSave
  \/ MixedFinish

SpecMixed == InitMixed /\ [][NextMixed]_vars

(***************************************************************************)
(* SpecReceipt: the concurrent checkouts of SpecConc with the insert of    *)
(* the Sale and the commit as separate steps, all within one second: the   *)
(* receipt numbers differ by their random part only.  The unique index     *)
(* rejects an insert whose key a committed Sale holds (E11000) or a        *)
(* transaction in progress has inserted (WriteConflict).                   *)
(***************************************************************************)
MaxRandom == 2

\* one unit of either product of tenant A, strict or override
ReceiptBodies ==
  [ items : { << [productId |-> p, quantity |-> 1] >> : p \in {1, 2} },
    amountPaid : {HighPaid}, ignoreStock : {"false", "true"} ]

InitReceipt ==
  /\ products = Catalogue([fullPacks |-> 1, looseUnits |-> 0],
                          [fullPacks |-> 1, looseUnits |-> 0])
  /\ sales = << >>
  /\ recons = << >>
  /\ logs = << >>
  /\ last = NoRequest
  /\ txs = [ initial |-> products, s |-> [t \in Sessions |-> IdleSession] ]

\* the item loop of session t is over and the request goes on to the Sale
ReachesSale(t) ==
  /\ txs.s[t].pc = "items"
  /\ txs.s[t].tx.res.status = 0
  /\ txs.s[t].i > Len(txs.s[t].body.items)
  /\ ~txs.s[t].tx.aborted
  /\ ~insufficientPayment(txs.s[t].body.amountPaid, txs.s[t].tx.totalAmount)

\* the receipt numbers of the Sales inserted by transactions in progress
\* other than t
heldByOthers(t) ==
  { txs.s[u].res.receiptNumber : u \in { v \in Sessions \ {t} :
                                           txs.s[v].pc = "saved" } }

\* an early return or a thrown error before new Sale(...)
FinishEarly(t) ==
  /\ txs.s[t].pc = "items"
  /\ ~ReachesSale(t)
  /\ Finish(t)

\* new Sale({ receiptNumber: generateReceiptNumber(), ... });
\* await sale.save({ session })
SaleSave(t, random) ==
  /\ ReachesSale(t)
  /\ LET receiptNumber == generateReceiptNumber(random)
     IN  IF receiptNumber \in heldByOthers(t)
         THEN txs' = [txs EXCEPT !.s[t].pc = "done",
                                 !.s[t].res = [status |-> 500,
                                               kind |-> "WriteConflict",
                                               line |-> 0]]
         ELSE txs' = [txs EXCEPT !.s[t].pc = "saved",
                                 !.s[t].res = [status |-> 0,
                                               receiptNumber |-> receiptNumber]]
  /\ UNCHANGED <<products, sales, recons, logs, last>>

\* the rest of processSale after sale.save: cases, audit entries, commit, or
\* the catch block when the insert was rejected
SaleCommit(t) ==
  /\ txs.s[t].pc = "saved"
  /\ \E r \in { finishSale(Db, txs.s[t].tx, txs.s[t].user, txs.s[t].body,
                           txs.s[t].res.receiptNumber, FALSE) } :
        /\ products' = r.db.products
        /\ sales' = r.db.sales
        /\ recons' = r.db.recons
        /\ logs' = r.db.logs
        /\ UNCHANGED last
        /\ txs' = [txs EXCEPT !.s =
              [u \in Sessions |->
                 IF u = t
                 THEN [txs.s[t] EXCEPT !.pc = "done", !.res = r.res]
                 ELSE IF txs.s[u].pc \in {"items", "saved"} /\ r.res.status = 200
                 THEN [txs.s[u] EXCEPT !.tx.conflicts =
                                          @ \cup txs.s[t].tx.written]
                 ELSE txs.s[u]]]

NextReceipt ==
  \/ \E t \in Sessions, body \in ReceiptBodies : Begin(t, body)
  \/ \E t \in Sessions : ItemStep(t)
  \/ \E t \in Sessions : FinishEarly(t)
  \/ \E t \in Sessions, random \in 1..MaxRandom : SaleSave(t, random)
  \/ \E t \in Sessions : SaleCommit(t)

SpecReceipt == InitReceipt /\ [][NextReceipt]_vars

\* C21: no two committed Sales of the same tenant share a receiptNumber,
\* including sales committed by concurrent checkouts within the same second.
C21_ReceiptUnique ==
  \A i \in 1..Len(sales) : \A j \in 1..Len(sales) :
     (i # j /\ sales[i].pharmacy = sales[j].pharmacy)
       => sales[i].receiptNumber # sales[j].receiptNumber

\* two checkouts drew the same receipt number: one is committed, the other was
\* rejected by the unique index
C21_Witness ==
  /\ Len(sales) = 1
  /\ \E t \in Sessions :
        /\ txs.s[t].pc = "done"
        /\ txs.s[t].res.status = 500
        /\ txs.s[t].res.kind = "DuplicateKey"
  /\ \A t \in Sessions : txs.s[t].pc = "done"

(***************************************************************************)
(* Properties of the sale engine (Spec)                                    *)
(***************************************************************************)
\* the last request reached processSale (it passed checkSalesPermissions)
SaleHandled == last.op = "processSale" /\ last.res.status # 403

\* the lines of the last sale whose quantity exceeded the product's
\* totalUnits when the line was processed
ShortLines ==
  { i \in DOMAIN last.info.seen :
      last.info.seen[i].quantity > last.info.seen[i].available }

\* C1: a processSale that ends in failure leaves every Stock Record, the
\* Sales, the Audit Entries and the Reconciliation Cases as they were before
\* the call, also when earlier lines of the sale had already been decremented.
C1_FailedSaleRollsBack ==
  [][ (last'.op = "processSale" /\ last'.res.status # 200)
        => /\ products' = products
           /\ sales' = sales
           /\ recons' = recons
           /\ logs' = logs ]_vars

\* a strict sale failed at its second line after the first line was saved
C1_Witness ==
  /\ SaleHandled
  /\ last.res.status \in {400, 404, 500}
  /\ last.res.line = 2
  /\ last.info.saved = 1

\* C2: in strict mode processSale fails with InsufficientStock at the first
\* line whose quantity exceeds the product's totalUnits as the transaction
\* sees it, reporting that totalUnits as available and the quantity as
\* requested; it fails with InsufficientStock in no other case.
C2_StrictInsufficientStock ==
  SaleHandled =>
    /\ (last.res.kind = "InsufficientStock")
          <=> (~last.info.ignoreStock /\ ShortLines # {})
    /\ last.res.kind = "InsufficientStock" =>
          /\ last.res.status = 400
          /\ last.res.line \in ShortLines
          /\ \A j \in ShortLines : last.res.line <= j
          /\ last.res.available = last.info.seen[last.res.line].available
          /\ last.res.requested = last.info.seen[last.res.line].quantity

\* a strict sale rejected at its second line, which saw the stock left by the
\* first line
C2_Witness ==
  /\ SaleHandled
  /\ last.res.kind = "InsufficientStock"
  /\ last.res.line = 2
  /\ last.info.saved = 1
  /\ last.res.requested = last.res.available + 1

\* C25: in strict mode, a sale whose products all exist and are active,
\* whose every line has quantity <= the product's totalUnits when the line is
\* processed, and whose amountPaid >= totalAmount commits (unless its receipt
\* number is taken); it never fails for a stock reason, for divisible and
\* whole-unit products alike and for every unitsPerPack >= 1.
C25_StrictCoveredSaleCommits ==
  ( /\ SaleHandled
    /\ ~last.info.ignoreStock
    /\ last.info.allActive
    /\ ShortLines = {}
    /\ last.info.paid
    /\ ~last.info.duplicateReceipt )
    => last.res.status = 200

\* what does hold: the same for sales of divisible products only
StrictCoveredDivisibleSaleCommits ==
  ( /\ SaleHandled
    /\ ~last.info.ignoreStock
    /\ last.info.allActive
    /\ ShortLines = {}
    /\ last.info.paid
    /\ ~last.info.duplicateReceipt
    /\ \A j \in DOMAIN last.info.items :
          products[last.info.items[j].productId].unitType \in DivisibleTypes )
    => last.res.status = 200

\* the Stock Record of the product of line i as the session held it after the
\* line: what the next line of that product loaded, or what was committed
stockAfterLine(i) ==
  LET later == { j \in DOMAIN last.info.seen :
                   j > i /\ last.info.seen[j].product = last.info.seen[i].product }
  IN  IF later = {}
      THEN products[last.info.seen[i].product].stock
      ELSE last.info.seen[CHOOSE j \in later : \A k \in later : j <= k].stock

\* C27: in a committed override-mode sale, a line with a shortage (quantity >
\* totalUnits when processed) leaves that product's persisted Stock Record
\* exactly as it was: no partial decrement, neither loose units nor packs are
\* consumed by that line.
C27_ShortLineLeavesStock ==
  ( /\ SaleHandled
    /\ last.res.status = 200
    /\ last.info.ignoreStock )
    => \A i \in ShortLines : stockAfterLine(i) = last.info.seen[i].stock

\* a committed override sale of two lines of one product: the first was
\* decremented, the second was short and took nothing
C27_Witness ==
  /\ SaleHandled
  /\ last.res.status = 200
  /\ last.info.ignoreStock
  /\ ShortLines = {2}
  /\ last.info.seen[1].product = last.info.seen[2].product
  /\ last.info.seen[2].stock # last.info.seen[1].stock
  /\ last.info.seen[2].stock.looseUnits > 0
  /\ products[last.info.seen[2].product].stock = last.info.seen[2].stock

\* line i of the request names a product of another tenant than the actor's
ForeignLine(items, i, tenant) ==
  /\ items[i].productId \in DOMAIN products
  /\ products[items[i].productId].pharmacy # tenant

\* C28: processSale only reads and decrements Stock Records of products owned
\* by the actor's tenant: a sale by an actor of tenant A that names a product
\* of tenant B fails (NotFound when the line is reached) and leaves B's Stock
\* Record unchanged.
C28_SaleStaysInTenant ==
  [][ (last'.op = "processSale" /\ last'.res.status # 403)
        => LET items == last'.info.items
               tenant == last'.info.tenant
           IN  /\ (\E i \in DOMAIN items : ForeignLine(items, i, tenant))
                    => last'.res.status # 200
               /\ ForeignLine(items, 1, tenant)
                    => last'.res.status = 404 /\ last'.res.kind = "NotFound"
               /\ \A id \in DOMAIN products :
                     products[id].pharmacy # tenant
                       => products'[id] = products[id] ]_vars

\* the number of calls of the given names on the session of the last sale
sessionCount(names) ==
  Cardinality({ k \in DOMAIN last.session : last.session[k] \in names })

\* C30: every database session that processSale starts is ended (endSession)
\* on every path (successful commit, each validation-failure return, thrown
\* error) and its transaction is committed or aborted exactly once before the
\* request completes.
C30_SessionAlwaysEnded ==
  SaleHandled =>
    /\ sessionCount({"startSession"}) = sessionCount({"endSession"})
    /\ sessionCount({"commitTransaction", "abortTransaction"}) = 1

\* what does hold: the transaction of every request is committed or aborted
\* exactly once, and the session is ended after a commit and after a thrown
\* error
TransactionAlwaysClosed ==
  SaleHandled =>
    /\ sessionCount({"commitTransaction", "abortTransaction"}) = 1
    /\ last.res.status \in {200, 500} => sessionCount({"endSession"}) = 1

\* the sum of the line totals of the first n items, at the catalogue's prices
RECURSIVE SumTotals(_, _)
SumTotals(items, n) ==
  IF n = 0 THEN 0
  ELSE SumTotals(items, n - 1)
         + items[n].quantity * pricePerUnit(products[items[n].productId])

\* the item loop of the last request ran to its end: no line failed
LoopCompleted ==
  /\ SaleHandled
  /\ last.res.kind \in {"ok", "InsufficientPayment", "DuplicateKey",
                        "NoSuchTransaction"}

\* C11 as stated: processSale fails with InsufficientPayment exactly when
\* amountPaid < totalAmount, and a committed Sale has
\* changeDue = amountPaid - totalAmount >= 0.
C11_InsufficientPaymentExactly ==
  SaleHandled =>
    /\ (last.res.kind = "InsufficientPayment")
          <=> last.info.amountPaid < last.info.totalAmount
    /\ last.res.status = 200 =>
          /\ sales[Len(sales)].changeDue
                = last.info.amountPaid - last.info.totalAmount
          /\ sales[Len(sales)].changeDue >= 0

\* C11 amended: a processSale whose item loop completed without a failing
\* line fails with InsufficientPayment (400) exactly when amountPaid is less
\* than the sum of the line totals; a committed Sale has that sum as
\* totalAmount and changeDue = amountPaid - totalAmount >= 0.
C11_PaymentCheckAfterLoop ==
  /\ LoopCompleted =>
        /\ last.info.totalAmount
              = SumTotals(last.info.items, Len(last.info.items))
        /\ (last.res.kind = "InsufficientPayment")
              <=> last.info.amountPaid < last.info.totalAmount
  /\ (SaleHandled /\ last.res.kind = "InsufficientPayment")
        => LoopCompleted /\ last.res.status = 400
  /\ (SaleHandled /\ last.res.status = 200) =>
        /\ sales[Len(sales)].totalAmount = last.info.totalAmount
        /\ sales[Len(sales)].amountPaid = last.info.amountPaid
        /\ sales[Len(sales)].changeDue
              = last.info.amountPaid - last.info.totalAmount
        /\ sales[Len(sales)].changeDue >= 0
        /\ last.res.changeDue = sales[Len(sales)].changeDue

\* a sale paid to the exact amount committed with no change due
C11_Witness ==
  /\ SaleHandled
  /\ last.res.status = 200
  /\ last.info.amountPaid = last.info.totalAmount
  /\ sales[Len(sales)].changeDue = 0

\* the stock warnings of the first n processed lines of the last sale: one
\* entry per short line, in the order of the lines
RECURSIVE expectedWarnings(_)
expectedWarnings(n) ==
  IF n = 0 THEN << >>
  ELSE LET line == last.info.seen[n]
       IN  IF line.quantity > line.available
           THEN Append(expectedWarnings(n - 1),
                       [ product |-> products[line.product].name,
                         requested |-> line.quantity,
                         available |-> line.available,
                         deficit |-> line.quantity - line.available ])
           ELSE expectedWarnings(n - 1)

\* C12: the committed Sale's metadata.stockWarnings and the warnings block of
\* the response hold exactly one entry per line whose quantity exceeded the
\* product's totalUnits when the line was processed, with requested =
\* quantity, available = that totalUnits and deficit = requested - available;
\* covered lines produce no entry and strict-mode sales have no entries.
C12_WarningPerShortLine ==
  (SaleHandled /\ last.res.status = 200) =>
    /\ Len(last.info.seen) = Len(last.info.items)
    /\ sales[Len(sales)].metadata.stockWarnings
          = expectedWarnings(Len(last.info.seen))
    /\ last.res.warnings = sales[Len(sales)].metadata.stockWarnings
    /\ sales[Len(sales)].metadata.ignoreStock = last.info.ignoreStock
    /\ ~last.info.ignoreStock => sales[Len(sales)].metadata.stockWarnings = << >>

\* an override sale of two lines committed with a warning for the short line
\* only, although the stock decrement of a line threw
C12_Witness ==
  /\ SaleHandled
  /\ last.res.status = 200
  /\ last.info.ignoreStock
  /\ Len(last.info.seen) = 2
  /\ Cardinality(ShortLines) = 1
  /\ Len(last.res.warnings) = 1
  /\ last.info.swallowed >= 1

\* the Audit Entries with action 'sale' that reference the Sale with this id
saleEntries(saleId) ==
  { i \in DOMAIN logs :
      logs[i].action = "sale" /\ logs[i].details.saleId = saleId }

\* C13: every committed Sale with n items has exactly n Audit Entries with
\* action 'sale' that reference it, one per line item, committed with it: no
\* Sale exists without all its entries and no sale entry without its Sale.
C13_SaleEntriesPaired ==
  /\ \A k \in DOMAIN sales :
        /\ Cardinality(saleEntries(sales[k].id)) = Len(sales[k].items)
        /\ \A j \in DOMAIN sales[k].items :
              \E i \in saleEntries(sales[k].id) :
                 /\ logs[i].product = sales[k].items[j].product
                 /\ logs[i].details.quantity = sales[k].items[j].quantity
                 /\ logs[i].pharmacy = sales[k].pharmacy
  /\ \A i \in DOMAIN logs :
        logs[i].action = "sale" =>
          \E k \in DOMAIN sales : sales[k].id = logs[i].details.saleId
  /\ (SaleHandled /\ last.res.status # 200) =>
        saleEntries(Len(sales) + 1) = {}

\* a sale of two lines committed after an earlier sale: two new entries
C13_Witness ==
  /\ SaleHandled
  /\ last.res.status = 200
  /\ Len(sales) = 2
  /\ Len(sales[2].items) = 2
  /\ Cardinality(saleEntries(sales[2].id)) = 2
  /\ Len(logs) = 3

\* C14: the Reconciliation Cases of a sale are written only after the sale's
\* transaction has committed: the commit precedes every case write.
C14_CasesAfterCommit ==
  (SaleHandled /\ last.res.status = 200) =>
    \A i \in DOMAIN last.info.ops : \A j \in DOMAIN last.info.ops :
       ( last.info.ops[i] = "commitTransaction"
         /\ last.info.ops[j] = "StockReconciliation.save" ) => i < j

\* C15: a failure while creating a Reconciliation Case (the product lookup
\* finds nothing, or the case write is rejected) never makes the sale fail:
\* the sale that was due a case is committed and answered with success.
C15_CaseFailureNotFatal ==
  ( SaleHandled /\ LoopCompleted /\ last.info.paid
    /\ ~last.info.duplicateReceipt /\ last.info.casesDue )
    => /\ last.res.status = 200
       /\ sales[Len(sales)].id = last.res.saleId
       /\ Cardinality(saleEntries(last.res.saleId)) = Len(last.info.items)

\* the same for the lookup failure alone, which the code does survive: the
\* product of the short line is not found in the seller's tenant, no case is
\* written and the sale commits
LookupFailureNotFatal ==
  ( SaleHandled /\ LoopCompleted /\ last.info.paid
    /\ ~last.info.duplicateReceipt /\ last.info.casesDue
    /\ ~last.info.caseWriteFailed )
    => last.res.status = 200

\* C16: a sale is processed with the stock check relaxed only if the actor is
\* a pharmacy owner or an attendant with permissions.overrideStock: for every
\* other actor and every ignoreStock value that processSale treats as
\* override the request is rejected before processSale runs.
C16_OverrideOnlyIfAuthorized ==
  (SaleHandled /\ last.info.ignoreStock) => last.info.authorized

\* the part of C16 the middleware does enforce: a request is answered 403
\* exactly when ignoreStock is the boolean true and the actor is not
\* authorized
StrictTrueIsRejected ==
  last.op = "processSale" =>
    ( last.res.status = 403 <=> (last.info.strict /\ ~last.info.authorized) )

\* the last request was a strict sale of two lines of the same divisible
\* product; both lines were processed only if the first passed
TwoLinesOfOneDivisible(request) ==
  /\ request.op = "processSale" /\ request.res.status # 403
  /\ ~request.info.ignoreStock
  /\ Len(request.info.items) = 2
  /\ request.info.items[1].productId = request.info.items[2].productId
  /\ request.info.items[1].productId \in DOMAIN products
  /\ products[request.info.items[1].productId].status = "active"
  /\ products[request.info.items[1].productId].unitType \in DivisibleTypes

\* C17: items are processed in submitted order and each line's stock check
\* and decrement sees the decrements of the earlier lines of the same sale:
\* for two lines of the same divisible product with quantities q1 then q2
\* and initial totalUnits T, strict mode rejects the sale for insufficient
\* stock exactly when q1 > T or q2 > T - q1, the second line being checked
\* against T - q1, and on commit totalUnits = T - q1 - q2.
C17_LaterLinesSeeEarlier ==
  [][ TwoLinesOfOneDivisible(last') =>
        LET p == last'.info.items[1].productId
            q1 == last'.info.items[1].quantity
            q2 == last'.info.items[2].quantity
            T == totalUnits(products[p])
        IN  /\ (last'.res.kind = "InsufficientStock")
                  <=> (q1 > T \/ q2 > T - q1)
            /\ last'.res.kind = "InsufficientStock" =>
                  /\ last'.res.line = (IF q1 > T THEN 1 ELSE 2)
                  /\ last'.res.available = (IF q1 > T THEN T ELSE T - q1)
            /\ last'.res.kind # "InsufficientStock" =>
                  /\ last'.info.seen[1].available = T
                  /\ last'.info.seen[2].available = T - q1
                  /\ last'.res.status \in {200, 400, 500}
                  /\ last'.res.status = 400
                        => last'.res.kind = "InsufficientPayment"
                  /\ last'.res.status = 500 => last'.res.kind = "DuplicateKey"
            /\ last'.res.status = 200 =>
                  totalUnits(products'[p]) = T - q1 - q2 ]_vars

\* such a sale committed after the second line took the units the first had
\* left, breaking a pack
C17_Witness ==
  /\ TwoLinesOfOneDivisible(last)
  /\ last.res.status = 200
  /\ last.info.items[1].productId = 1
  /\ last.info.seen[2].available
        = last.info.seen[1].available - last.info.items[1].quantity
  /\ last.info.seen[2].available = last.info.items[2].quantity
  /\ totalUnits(products[1]) = 0

RECURSIVE casesOf(_, _)
casesOf(saleId, k) ==
  IF k = 0 THEN << >>
  ELSE IF recons[k].saleId = saleId
       THEN Append(casesOf(saleId, k - 1),
              [quantitySold |-> recons[k].quantitySold,
               availableStock |-> recons[k].availableStock,
               deficit |-> recons[k].deficit])
       ELSE casesOf(saleId, k - 1)

\* one expected case per short line of the last sale, in line order
RECURSIVE expectedCases(_)
expectedCases(k) ==
  IF k = 0 THEN << >>
  ELSE IF k \in ShortLines
       THEN Append(expectedCases(k - 1),
              [quantitySold |-> last.info.seen[k].quantity,
               availableStock |-> last.info.seen[k].available,
               deficit |-> last.info.seen[k].quantity
                             - last.info.seen[k].available])
       ELSE expectedCases(k - 1)

\* C5: after a committed sale the Reconciliation Cases that reference it are
\* exactly one per line whose quantity exceeded the product's totalUnits when
\* the line was processed, each with that line's quantitySold, availableStock
\* and deficit = quantitySold - availableStock > 0; none for covered lines.
C5_OneCasePerShortLine ==
  (SaleHandled /\ last.res.status = 200)
    => /\ casesOf(last.res.saleId, Len(recons))
            = expectedCases(Len(last.info.seen))
       /\ \A k \in DOMAIN recons : recons[k].deficit > 0

(***************************************************************************)
(* Properties of concurrent sales (SpecConc)                               *)
(***************************************************************************)
\* session t committed its sale
Committed(t) == txs.s[t].pc = "done" /\ txs.s[t].res.status = 200

\* the units sold of product p by the committed sales 1..t that decremented it
RECURSIVE soldUnits(_, _)
soldUnits(p, t) ==
  IF t = 0 THEN 0
  ELSE soldUnits(p, t - 1) +
       ( IF Committed(t) /\ p \in txs.s[t].tx.written
         THEN txs.s[t].body.items[1].quantity ELSE 0 )

\* sessions t and u sold the same product in strict mode, each quantity fits
\* the initial stock, the two together do not
FitAloneNotTogether(t, u) ==
  LET lt == txs.s[t].body.items[1]
      lu == txs.s[u].body.items[1]
      available == totalUnits(txs.initial[lt.productId])
  IN  /\ ~truthy(txs.s[t].body.ignoreStock)
      /\ ~truthy(txs.s[u].body.ignoreStock)
      /\ lt.productId = lu.productId
      /\ lt.quantity <= available /\ lu.quantity <= available
      /\ lt.quantity + lu.quantity > available

\* every request has arrived and finished
AllFinished == \A t \in Sessions : txs.s[t].pc = "done"

\* once all have finished, product p holds the initial units less the units
\* of the committed sales that decremented it
NoLostUpdate(p) ==
  totalUnits(products[p]) = totalUnits(txs.initial[p]) - soldUnits(p, MaxSessions)

\* C6: when two or more processSale transactions on the same product run
\* concurrently no update is lost: once all have finished, the product's
\* totalUnits equals the initial totalUnits minus the sum of the quantities
\* of the committed sales that decremented it, and two strict-mode sales
\* that each fit the stock alone but not together never both commit.
C6_NoLostUpdate ==
  AllFinished =>
    /\ \A p \in {1, 2} : NoLostUpdate(p)
    /\ \A t \in Sessions : \A u \in Sessions \ {t} :
          FitAloneNotTogether(t, u) => ~(Committed(t) /\ Committed(u))

\* the same statement for the divisible product alone holds: the loss is
\* on the whole-unit path (see C3)
DivisibleNoLostUpdate ==
  AllFinished =>
    /\ NoLostUpdate(1)
    /\ \A t \in Sessions : \A u \in Sessions \ {t} :
          FitAloneNotTogether(t, u) => ~(Committed(t) /\ Committed(u))

\* two sales of the divisible product overlapped and one was refused with a
\* write conflict while the other committed
DivisibleConflictReached ==
  /\ AllFinished
  /\ \E t \in Sessions : \E u \in Sessions \ {t} :
        /\ Committed(t) /\ 1 \in txs.s[t].tx.written
        /\ txs.s[u].res.status = 500
        /\ txs.s[u].body.items[1].productId = 1

\* the units the adjustment added
addedUnits ==
  IF txs.a.res.status # 200 THEN 0
  ELSE IF txs.a.kind = "add"
  THEN txs.a.quantity * txs.initial[1].pricing.unitsPerPack
  ELSE txs.a.quantity

\* C29: a manual adjustStock or an adjustFromReconciliation that runs
\* concurrently with a processSale on the same product loses no update: once
\* both have finished, the product's totalUnits equals the initial totalUnits
\* plus the units added by the adjustment minus the quantity decremented by
\* the committed sale.
C29_AdjustmentAndSaleLoseNothing ==
  (txs.a.pc = "done" /\ txs.s[1].pc = "done")
    => totalUnits(products[1])
         = totalUnits(txs.initial[1]) + addedUnits - soldUnits(1, 1)

\* what does hold: nothing is lost when the adjustment loaded the stock the
\* sale left (the initial stock if the sale committed no decrement)
AdjustmentAfterSaleLosesNothing ==
  (txs.a.pc = "done" /\ txs.s[1].pc = "done"
     /\ totalUnits(txs.a.loaded) = totalUnits(txs.initial[1]) - soldUnits(1, 1))
    => totalUnits(products[1])
         = totalUnits(txs.initial[1]) + addedUnits - soldUnits(1, 1)

(***************************************************************************)
(* Properties of concurrent reconciliation adjustments (SpecAdjust)        *)
(***************************************************************************)
\* the calls that adjusted the stock for case 1
Adjusters == { c \in Calls : txs.s[c].res.status = 200 /\ txs.s[c].id = 1 }

\* C18: the reconciliation adjustment is transactional: when two
\* adjustFromReconciliation calls on the same pending case run concurrently,
\* at most one of them increments the product's stock, and the product's
\* totalUnits rises by one adjustmentQuantity only.
C18_OneAdjustmentOnly ==
  (\A c \in Calls : txs.s[c].pc = "done") =>
    /\ Cardinality(Adjusters) <= 1
    /\ \A c \in Adjusters :
          totalUnits(products[1])
            = totalUnits(txs.initial[1]) + txs.s[c].quantity
    /\ Adjusters = {} => totalUnits(products[1]) = totalUnits(txs.initial[1])

\* C23: adjustFromReconciliation performs the stock increment, then the
\* stock_adjust Audit Entry with a back-reference to the case, then the
\* transition of the case to adjusted; hence in every reachable state a case
\* that this operation has moved to adjusted already has its Audit Entry.
C23_AdjustedCaseHasEntry ==
  \A id \in DOMAIN recons :
     recons[id].status = "adjusted"
       => \E k \in DOMAIN logs :
             /\ logs[k].action = "stock_adjust"
             /\ "reconciliationId" \in DOMAIN logs[k].details
             /\ logs[k].details.reconciliationId = id

\* what does hold of the order of the steps: an adjusted case has its stock
\* increment, and an Audit Entry of the adjustment has its adjusted case
AdjustEntryHasAdjustedCase ==
  \A k \in DOMAIN logs :
     (logs[k].action = "stock_adjust"
        /\ "reconciliationId" \in DOMAIN logs[k].details)
       => recons[logs[k].details.reconciliationId].status = "adjusted"

\* the least number of packs of unitsPerPack units that hold r units
packsFor(r, unitsPerPack) ==
  CHOOSE k \in 0..r : k * unitsPerPack >= r /\ (k - 1) * unitsPerPack < r

\* C22: divisible decrement of q on a record with fullPacks P, looseUnits L,
\* unitsPerPack U: if q <= L the result is (P, L - q); otherwise, with
\* r = q - L and k = ceil(r / U), it fails with InsufficientStock and leaves
\* the persisted record unchanged when k > P, else the result is
\* (P - k, k*U - r).
C22_DivisibleDecrement ==
  [][ (last'.op = "updateProductStock" /\ products[1].unitType \in DivisibleTypes)
      => LET P == products[1].stock.fullPacks
             L == products[1].stock.looseUnits
             U == products[1].pricing.unitsPerPack
             q == last'.quantity
             r == q - L
             k == packsFor(r, U)
         IN  IF q <= L
             THEN /\ last'.err = "none"
                  /\ products'[1].stock = [fullPacks |-> P, looseUnits |-> L - q]
             ELSE IF k > P
             THEN /\ last'.err = "NotEnough"
                  /\ products' = products
             ELSE /\ last'.err = "none"
                  /\ products'[1].stock =
                       [fullPacks |-> P - k, looseUnits |-> (k * U) - r] ]_vars

\* a decrement that broke a pack and put the change back as loose units
C22_Witness ==
  /\ last.op = "updateProductStock"
  /\ products[1].unitType \in DivisibleTypes
  /\ last.err = "none"
  /\ last.quantity > last.before.looseUnits
  /\ products[1].stock.fullPacks < last.before.fullPacks
  /\ products[1].stock.looseUnits > 0

(***************************************************************************)
(* Properties of the stock mutators (SpecStock)                            *)
(***************************************************************************)
\* C3: for every Stock Record and every quantity 1 <= q <= totalUnits the
\* sale decrement leaves totalUnits_after = totalUnits_before - q, for
\* divisible and whole-unit unit types alike.
C3_DecrementExact ==
  [][ (last'.op = "updateProductStock"
         /\ last'.quantity <= totalUnits(products[1]))
        => totalUnits(products'[1])
             = totalUnits(products[1]) - last'.quantity ]_vars

\* C10: after every restock looseUnits < unitsPerPack, whatever looseUnits
\* was before.
C10_RestockNormalizes ==
  last.op = "addStock"
    => products[1].stock.looseUnits < products[1].pricing.unitsPerPack

\* a restock of a record whose looseUnits was at least one pack
C10_Witness ==
  /\ last.op = "addStock"
  /\ last.before.looseUnits >= products[1].pricing.unitsPerPack
  /\ last.units > 0


(***************************************************************************)
(* Properties of the reconciliation ledger (SpecRecon)                     *)
(***************************************************************************)
\* C7: adjustFromReconciliation on a case that does not exist, belongs to
\* another tenant or is not pending fails with NotFound and changes no Stock
\* Record, no Reconciliation Case and no Audit Entry.
C7_AdjustNotPendingIsNotFound ==
  [][ ( /\ last'.op = "adjustStockFromReconciliation"
        /\ \/ last'.id \notin DOMAIN recons
           \/ recons[last'.id].pharmacy # last'.tenant
           \/ recons[last'.id].status # "pending" )
        => /\ last'.res.status = 404
           /\ products' = products
           /\ recons' = recons
           /\ logs' = logs ]_vars

\* a second adjustment of a case that was adjusted before is answered 404
C7_Witness ==
  /\ last.op = "adjustStockFromReconciliation"
  /\ last.res.status = 404
  /\ last.id \in DOMAIN recons
  /\ recons[last.id].pharmacy = last.tenant
  /\ recons[last.id].status = "adjusted"
  /\ \E k \in DOMAIN logs :
        /\ logs[k].action = "stock_adjust"
        /\ logs[k].details.reconciliationId = last.id

\* the fields of a case that updateReconciliation does not write
CaseFrame == { "id", "saleId", "pharmacy", "attendant", "product",
               "productName", "quantitySold", "availableStock", "deficit" }

\* C24: resolve (updateReconciliation) is a pure status/metadata update: it
\* changes only the addressed case of the caller's tenant (status, notes,
\* action, resolver, timestamp) and leaves every Stock Record and the Audit
\* Trail unchanged for every target status, including adjusted; on a case of
\* another tenant it fails NotFound and changes nothing.
C24_ResolveIsMetadataOnly ==
  [][ last'.op = "updateReconciliation"
        => /\ products' = products
           /\ logs' = logs
           /\ sales' = sales
           /\ IF last'.id \in DOMAIN recons
                 /\ recons[last'.id].pharmacy = last'.tenant
              THEN /\ last'.res.status = 200
                   /\ DOMAIN recons' = DOMAIN recons
                   /\ \A k \in DOMAIN recons :
                         k # last'.id => recons'[k] = recons[k]
                   /\ \A f \in CaseFrame :
                         recons'[last'.id][f] = recons[last'.id][f]
                   /\ recons'[last'.id].status = last'.status
                   /\ recons'[last'.id].resolvedBy = "ownerA"
              ELSE /\ last'.res.status = 404
                   /\ recons' = recons ]_vars

\* a case set to adjusted by updateReconciliation: no stock was added and no
\* Audit Entry refers to it
C24_Witness ==
  /\ last.op = "updateReconciliation"
  /\ last.res.status = 200
  /\ last.status = "adjusted"
  /\ recons[last.id].status = "adjusted"
  /\ ~\E k \in DOMAIN logs : logs[k].action = "stock_adjust"

\* the Audit Entries of the stock increments made for case id
adjustmentsOf(id) ==
  { k \in DOMAIN logs :
      /\ logs[k].action = "stock_adjust"
      /\ "reconciliationId" \in DOMAIN logs[k].details
      /\ logs[k].details.reconciliationId = id }

\* C26: over any sequence of resolve (updateReconciliation) and
\* adjustFromReconciliation calls on one Reconciliation Case,
\* adjustFromReconciliation increments the product's stock for that case at
\* most once.
C26_AtMostOneAdjustmentPerCase ==
  \A id \in DOMAIN recons : Cardinality(adjustmentsOf(id)) <= 1

\* what does hold: without a call that sets the case back to pending in
\* between, a second adjustment of a case is answered 404
NoSecondAdjustmentUnlessReopened ==
  [][ ( /\ last'.op = "adjustStockFromReconciliation"
        /\ last'.res.status = 200 )
        => recons[last'.id].status = "pending" ]_vars

\* position of a status in pending -> investigating -> {resolved, adjusted}
StatusRank(status) ==
  CASE status = "pending" -> 0
    [] status = "investigating" -> 1
    [] OTHER -> 2

\* C8: the status of a Reconciliation Case only moves forward along
\* pending -> investigating -> {resolved, adjusted}; no call moves a case out
\* of resolved or adjusted or back to an earlier status.
C8_StatusForwardOnly ==
  [][ \A k \in DOMAIN recons :
        /\ StatusRank(recons'[k].status) >= StatusRank(recons[k].status)
        /\ recons[k].status \in {"resolved", "adjusted"}
             => recons'[k].status = recons[k].status ]_vars

\* C9: adjustFromReconciliation on a pending case with deficit d and
\* adjustmentQuantity = d increases the totalUnits of the case's product by
\* exactly d, for every fullPacks, looseUnits and unitsPerPack.
C9_AdjustAddsDeficit ==
  [][ ( /\ last'.op = "adjustStockFromReconciliation"
        /\ last'.res.status = 200
        /\ last'.quantity = recons[last'.id].deficit )
        => /\ totalUnits(products'[recons[last'.id].product])
                = totalUnits(products[recons[last'.id].product])
                    + recons[last'.id].deficit
           /\ \A id \in DOMAIN products :
                 id # recons[last'.id].product => products'[id] = products[id] ]_vars

\* an adjustment by the deficit that filled at least one more pack
C9_Witness ==
  /\ last.op = "adjustStockFromReconciliation"
  /\ last.res.status = 200
  /\ last.quantity = recons[last.id].deficit
  /\ recons[last.id].status = "adjusted"
  /\ products[1].pricing.unitsPerPack > 1
  /\ products[1].stock.fullPacks > ReconPacks

====
